---- MODULE Spec2Model ----
(***************************************************************************)
(* SpatialHashGrid (src/src/types.ts): a fixed grid of cells, each cell    *)
(* the head of a doubly-linked list of nodes, one node per client that     *)
(* touches the cell.                                                       *)
(*                                                                         *)
(* Numbers.  Positions and dimensions are integers in world units.  The    *)
(* code halves the dimensions (x - w / 2), so every coordinate handed to   *)
(* getCellIndex is carried doubled (2x - w), and the division by the width *)
(* of the bounds is carried as an exact fraction.  The bounds chosen have  *)
(* power-of-two widths, for which the IEEE doubles of the code compute the *)
(* same values exactly, or (the grid 100 units wide) coordinates whose     *)
(* quotient is exact wherever the product is a whole number.               *)
(*                                                                         *)
(* Objects.  A node (Head) is named <<client, gen, x, y>>: its owner, the  *)
(* generation of the insert call that allocated it, and the cell it was    *)
(* allocated for.  The min/max/nodes arrays allocated by the same insert   *)
(* call carry the same generation.  A generation is fresh when no object   *)
(* of that client bears it, the nodes the operation has unlinked included. *)
(* The heap keeps the nodes reachable from the cells and from the clients' *)
(* node tables; the others are garbage.  Names are arbitrary: when an      *)
(* operation has returned, the generations of each client's objects are    *)
(* renumbered from 0 in their order, so that two heaps that differ only in *)
(* the names of their objects are one state.  Names are stable within an   *)
(* operation, which is where object identity is compared.                  *)
(***************************************************************************)
EXTENDS Integers, Sequences, FiniteSets, TLC

\* Number of client objects the caller holds at most at one time.
NumClients == 3
\* Number of findNear calls in a run.
MaxQueries == 1
\* Number of node sets one client may have linked at a time, when insert is
\* called directly.
MaxLinked == 2

\* constructor(bounds, dimensions): how many cells along each axis.
Dimensions == <<3, 2>>
\* constructor(bounds, dimensions): [[minX, minY], [maxX, maxY]].
Bounds == << <<0, 0>>, <<4, 2>> >>

\* Positions and dimensions the caller gives to clients and queries.
Positions == { <<1, 1>>, <<2, 1>> }
Extents == { <<0, 0>>, <<2, 2>> }

Clients == 1..NumClients
Null == << >>
\* client.cells.nodes = null (a table built by insert holds node names only)
NullNodes == << <<Null>> >>
\* client.metadata of a client made without an object (metadata = {}).
NoObject == 0

VARIABLES
    gridBounds,     \* this.bounds
    gridDimensions, \* this.dimensions
    heap,       \* node name -> [next, prev, client]
    cells,      \* this.cells[x][y]: head node of the cell, or Null
    clients,    \* the Client objects the caller holds
    queryIds,   \* this.queryIds
    tracked,    \* ThreeSpatialHashGrid.clients: the clients added, in order
    objects,    \* the caller's 3D objects: position and bounding box
    last,       \* the last call: operation, client, outcome
    query,      \* the arguments of the last call, when it was a lookup
    ret         \* what the last lookup returned

vars == <<gridBounds, gridDimensions, heap, cells, clients, queryIds, tracked, objects,
          last, query, ret>>

CellXs == 0..(gridDimensions[1] - 1)
CellYs == 0..(gridDimensions[2] - 1)
AllCells == CellXs \X CellYs

----------------------------------------------------------------------------
\* Mutant of Sat: Math.min(x, 1.0), without Math.max(x, 0.0).
SatNoFloor(num, den) == IF num > den THEN den ELSE num

\* Mutant of Sat: the fraction wraps around instead of saturating.
SatWraps(num, den) == num % den

\* math.sat on the fraction num/den (den > 0): the numerator of the result
Sat(num, den) == IF num < 0 THEN 0 ELSE IF num > den THEN den ELSE num

\* Mutant of CellIndexAxis: the normalised coordinate is multiplied by the
\* number of cells, not by the number of cells less one.
CellIndexAxisFull(p2, a) ==
    LET den == 2 * (gridBounds[2][a] - gridBounds[1][a])
        num == Sat(p2 - 2 * gridBounds[1][a], den)
    IN  (num * gridDimensions[a]) \div den

\* One axis of getCellIndex; p2 is twice the coordinate.
CellIndexAxis(p2, a) ==
    LET den == 2 * (gridBounds[2][a] - gridBounds[1][a])
        num == Sat(p2 - 2 * gridBounds[1][a], den)
    IN  (num * (gridDimensions[a] - 1)) \div den

\* getCellIndex; p2 is twice the position.
GetCellIndex(p2) == << CellIndexAxis(p2[1], 1), CellIndexAxis(p2[2], 2) >>

\* [x - w / 2, y - h / 2] and [x + w / 2, y + h / 2], doubled
LowCorner(position, dimensions) ==
    << 2 * position[1] - dimensions[1], 2 * position[2] - dimensions[2] >>
HighCorner(position, dimensions) ==
    << 2 * position[1] + dimensions[1], 2 * position[2] + dimensions[2] >>

\* The cells of the loops "for x = i1[0]..i2[0], for y = i1[1]..i2[1]", in
\* the order the loops visit them.
RECURSIVE ColumnCells(_, _, _)
ColumnCells(x, y, yn) ==
    IF y > yn THEN << >> ELSE << <<x, y>> >> \o ColumnCells(x, y + 1, yn)

\* Mutant of LoopCells: the loops nested the other way, y outside and x
\* inside.
LoopCellsByY(x, i1, i2) ==
    LET w == i2[1] - x + 1
        h == i2[2] - i1[2] + 1
    IN  IF w <= 0 \/ h <= 0 THEN << >>
        ELSE [ k \in 1..(w * h) |->
                 << x + ((k - 1) % w), i1[2] + ((k - 1) \div w) >> ]

RECURSIVE LoopCells(_, _, _)
LoopCells(x, i1, i2) ==
    IF x > i2[1] THEN << >>
    ELSE ColumnCells(x, i1[2], i2[2]) \o LoopCells(x + 1, i1, i2)

----------------------------------------------------------------------------
\* Mutant of FreshClient: _queryId starts at 0, the id of the first query.
FreshClientStampZero(position, dimensions) ==
    [ exists |-> TRUE,
      position |-> position,
      dimensions |-> dimensions,
      cells |-> [min |-> Null, max |-> Null, nodes |-> NullNodes, gen |-> 0],
      queryId |-> 0,
      metadata |-> NoObject ]

\* newClient's object literal, before insert
FreshClient(position, dimensions) ==
    [ exists |-> TRUE,
      position |-> position,
      dimensions |-> dimensions,
      cells |-> [min |-> Null, max |-> Null, nodes |-> NullNodes, gen |-> 0],
      queryId |-> -1,
      metadata |-> NoObject ]

\* A client slot the caller holds no object in.
NoClient ==
    [ exists |-> FALSE,
      position |-> <<0, 0>>,
      dimensions |-> <<0, 0>>,
      cells |-> [min |-> Null, max |-> Null, nodes |-> NullNodes, gen |-> 0],
      queryId |-> -1,
      metadata |-> NoObject ]

\* The generations of client c's objects in the grid state g.
GensOf(g, c) ==
    { n[2] : n \in { m \in DOMAIN g.heap : m[1] = c } }
    \cup (IF g.clients[c].exists /\ g.clients[c].cells.min /= Null
          THEN { g.clients[c].cells.gen } ELSE { })

\* The grid and its clients as one value, threaded through the operations.
Grid ==
    [ heap |-> heap, cells |-> cells, clients |-> clients,
      queryIds |-> queryIds, thrown |-> FALSE ]

\* The generation of the objects a call of insert allocates: the first one
\* that no object of the client bears (g.heap still holds the nodes the
\* operation has unlinked so far).
FreshGen(g, c) ==
    LET used == GensOf(g, c)
    IN  CHOOSE e \in 0..Cardinality(used) :
            e \notin used /\ \A f \in 0..(e - 1) : f \in used

----------------------------------------------------------------------------
\* Mutant of InsertCell: head.next is left null, and the new node replaces
\* the cell's list.
InsertCellAlone(g, c, e, xy) ==
    LET head == <<c, e, xy[1], xy[2]>>
        h1 == (head :> [next |-> Null, prev |-> Null, client |-> c]) @@ g.heap
    IN  [g EXCEPT !.heap = h1, !.cells[xy] = head]

\* Mutant of InsertCell: the cell is set to the new node before head.next
\* is read from it, so the node is its own next.
InsertCellLinksItself(g, c, e, xy) ==
    LET head == <<c, e, xy[1], xy[2]>>
        h1 == (head :> [next |-> head, prev |-> head, client |-> c]) @@ g.heap
    IN  [g EXCEPT !.heap = h1, !.cells[xy] = head]

\* insert, the body of the inner loop for the cell xy: a new node is linked
\* in front of the cell's list.
InsertCell(g, c, e, xy) ==
    LET head == <<c, e, xy[1], xy[2]>>
        first == g.cells[xy]
        h1 == (head :> [next |-> first, prev |-> Null, client |-> c]) @@ g.heap
        h2 == IF first /= Null THEN [h1 EXCEPT ![first].prev = head] ELSE h1
    IN  [g EXCEPT !.heap = h2, !.cells[xy] = head]

RECURSIVE InsertLoop(_, _, _, _, _)
InsertLoop(g, c, e, todo, i) ==
    IF i > Len(todo) THEN g
    ELSE InsertLoop(InsertCell(g, c, e, todo[i]), c, e, todo, i + 1)

\* Mutant of Insert: both corners from x - w / 2, y - h / 2.
InsertLowCorner(g, c) ==
    LET cl == g.clients[c]
        i1 == GetCellIndex(LowCorner(cl.position, cl.dimensions))
        i2 == GetCellIndex(LowCorner(cl.position, cl.dimensions))
        e == FreshGen(g, c)
        linked == InsertLoop(g, c, e, LoopCells(i1[1], i1, i2), 1)
        nodes == [ xi \in 1..(i2[1] - i1[1] + 1) |->
                     [ yi \in 1..(i2[2] - i1[2] + 1) |->
                         <<c, e, i1[1] + xi - 1, i1[2] + yi - 1>> ] ]
    IN  [linked EXCEPT !.clients[c].cells =
            [min |-> i1, max |-> i2, nodes |-> nodes, gen |-> e]]

\* insert(client)
Insert(g, c) ==
    LET cl == g.clients[c]
        i1 == GetCellIndex(LowCorner(cl.position, cl.dimensions))
        i2 == GetCellIndex(HighCorner(cl.position, cl.dimensions))
        e == FreshGen(g, c)
        linked == InsertLoop(g, c, e, LoopCells(i1[1], i1, i2), 1)
        nodes == [ xi \in 1..(i2[1] - i1[1] + 1) |->
                     [ yi \in 1..(i2[2] - i1[2] + 1) |->
                         <<c, e, i1[1] + xi - 1, i1[2] + yi - 1>> ] ]
    IN  [linked EXCEPT !.clients[c].cells =
            [min |-> i1, max |-> i2, nodes |-> nodes, gen |-> e]]

\* Mutant of RemoveCell: the cell keeps its head when the head is removed.
RemoveCellKeepsHead(g, i1, nodes, xy) ==
    LET node == nodes[xy[1] - i1[1] + 1][xy[2] - i1[2] + 1]
        h0 == g.heap
        h1 == IF h0[node].next /= Null
              THEN [h0 EXCEPT ![h0[node].next].prev = h0[node].prev]
              ELSE h0
        h2 == IF h1[node].prev /= Null
              THEN [h1 EXCEPT ![h1[node].prev].next = h1[node].next]
              ELSE h1
    IN  [g EXCEPT !.heap = h2]

\* Mutant of RemoveCell: the next node's prev is left pointing at the node.
RemoveCellNoBackLink(g, i1, nodes, xy) ==
    LET node == nodes[xy[1] - i1[1] + 1][xy[2] - i1[2] + 1]
        h1 == g.heap
        h2 == IF h1[node].prev /= Null
              THEN [h1 EXCEPT ![h1[node].prev].next = h1[node].next]
              ELSE h1
        c1 == IF h2[node].prev = Null
              THEN [g.cells EXCEPT ![xy] = h2[node].next]
              ELSE g.cells
    IN  [g EXCEPT !.heap = h2, !.cells = c1]

\* remove, the body of the inner loop for the cell xy: the client's node of
\* that cell is spliced out of the cell's list.
RemoveCell(g, i1, nodes, xy) ==
    LET node == nodes[xy[1] - i1[1] + 1][xy[2] - i1[2] + 1]
        h0 == g.heap
        h1 == IF h0[node].next /= Null
              THEN [h0 EXCEPT ![h0[node].next].prev = h0[node].prev]
              ELSE h0
        h2 == IF h1[node].prev /= Null
              THEN [h1 EXCEPT ![h1[node].prev].next = h1[node].next]
              ELSE h1
        c1 == IF h2[node].prev = Null
              THEN [g.cells EXCEPT ![xy] = h2[node].next]
              ELSE g.cells
    IN  [g EXCEPT !.heap = h2, !.cells = c1]

RECURSIVE RemoveLoop(_, _, _, _, _)
RemoveLoop(g, i1, nodes, todo, i) ==
    IF i > Len(todo) THEN g
    ELSE RemoveLoop(RemoveCell(g, i1, nodes, todo[i]), i1, nodes, todo, i + 1)

\* Mutant of Remove: a client that is not in the grid is passed over in
\* silence.
RemoveSilent(g, c) ==
    LET cs == g.clients[c].cells
    IN  IF cs.min = Null \/ cs.max = Null \/ cs.nodes = NullNodes
        THEN g
        ELSE LET spliced == RemoveLoop(g, cs.min, cs.nodes,
                                       LoopCells(cs.min[1], cs.min, cs.max), 1)
             IN  [spliced EXCEPT !.clients[c].cells =
                     [min |-> Null, max |-> Null, nodes |-> NullNodes, gen |-> 0]]

\* Mutant of Remove: the cells are those of the client's position and
\* dimensions as they are now, and the client's node is taken out of those
\* of them where it has one.
RemoveRecomputed(g, c) ==
    LET cs == g.clients[c].cells
        cl == g.clients[c]
        i1 == GetCellIndex(LowCorner(cl.position, cl.dimensions))
        i2 == GetCellIndex(HighCorner(cl.position, cl.dimensions))
        Stored(xy) == /\ cs.min[1] <= xy[1] /\ xy[1] <= cs.max[1]
                      /\ cs.min[2] <= xy[2] /\ xy[2] <= cs.max[2]
    IN  IF cs.min = Null \/ cs.max = Null \/ cs.nodes = NullNodes
        THEN [g EXCEPT !.thrown = TRUE]
        ELSE LET spliced == RemoveLoop(g, cs.min, cs.nodes,
                                       SelectSeq(LoopCells(i1[1], i1, i2), Stored), 1)
             IN  [spliced EXCEPT !.clients[c].cells =
                     [min |-> Null, max |-> Null, nodes |-> NullNodes, gen |-> 0]]

\* remove(client)
Remove(g, c) ==
    LET cs == g.clients[c].cells
    IN  IF cs.min = Null \/ cs.max = Null \/ cs.nodes = NullNodes
        THEN [g EXCEPT !.thrown = TRUE]
        ELSE LET spliced == RemoveLoop(g, cs.min, cs.nodes,
                                       LoopCells(cs.min[1], cs.min, cs.max), 1)
             IN  [spliced EXCEPT !.clients[c].cells =
                     [min |-> Null, max |-> Null, nodes |-> NullNodes, gen |-> 0]]

\* Mutant of UpdateClient: the coherence test looks at min only.
UpdateClientMinOnly(g, c) ==
    LET cl == g.clients[c]
        min == cl.cells.min
        max == cl.cells.max
        i1 == GetCellIndex(LowCorner(cl.position, cl.dimensions))
    IN  IF min = Null \/ max = Null THEN [g EXCEPT !.thrown = TRUE]
        ELSE IF min[1] = i1[1] /\ min[2] = i1[2]
        THEN g
        ELSE LET removed == Remove(g, c)
             IN  IF removed.thrown THEN removed ELSE Insert(removed, c)

\* Mutant of UpdateClient: no coherence test, the client is always removed
\* and inserted again.
UpdateClientAlways(g, c) ==
    LET cl == g.clients[c]
    IN  IF cl.cells.min = Null \/ cl.cells.max = Null
        THEN [g EXCEPT !.thrown = TRUE]
        ELSE LET removed == Remove(g, c)
             IN  IF removed.thrown THEN removed ELSE Insert(removed, c)

\* updateClient(client)
UpdateClient(g, c) ==
    LET cl == g.clients[c]
        min == cl.cells.min
        max == cl.cells.max
        i1 == GetCellIndex(LowCorner(cl.position, cl.dimensions))
        i2 == GetCellIndex(HighCorner(cl.position, cl.dimensions))
    IN  IF min = Null \/ max = Null THEN [g EXCEPT !.thrown = TRUE]
        ELSE IF min[1] = i1[1] /\ min[2] = i1[2] /\ max[1] = i2[1] /\ max[2] = i2[2]
        THEN g
        ELSE LET removed == Remove(g, c)
             IN  IF removed.thrown THEN removed ELSE Insert(removed, c)

\* Mutant of WalkList: the clients found are not stamped with the query id.
RECURSIVE WalkListNoStamp(_, _, _, _, _)
WalkListNoStamp(h, q, head, queryId, fuel) ==
    IF head = Null THEN q
    ELSE IF fuel = 0 THEN [q EXCEPT !.endless = TRUE]
    ELSE LET v == h[head].client
             next == h[head].next
         IN  IF q.clients[v].queryId = queryId
             THEN WalkListNoStamp(h, q, next, queryId, fuel - 1)
             ELSE WalkListNoStamp(h, [q EXCEPT !.out = Append(q.out, v)],
                                  next, queryId, fuel - 1)

\* findNear, the while loop over one cell's list.  q carries the clients
\* (for _queryId), the result so far, and whether the walk was cut off after
\* more steps than there are nodes.
RECURSIVE WalkList(_, _, _, _, _)
WalkList(h, q, head, queryId, fuel) ==
    IF head = Null THEN q
    ELSE IF fuel = 0 THEN [q EXCEPT !.endless = TRUE]
    ELSE LET v == h[head].client
             next == h[head].next
         IN  IF q.clients[v].queryId = queryId
             THEN WalkList(h, q, next, queryId, fuel - 1)
             ELSE WalkList(h,
                           [q EXCEPT !.clients[v].queryId = queryId,
                                     !.out = Append(q.out, v)],
                           next, queryId, fuel - 1)

RECURSIVE FindLoop(_, _, _, _, _)
FindLoop(g, q, queryId, todo, i) ==
    IF i > Len(todo) \/ q.endless THEN q
    ELSE FindLoop(g,
                  WalkList(g.heap, q, g.cells[todo[i]], queryId,
                           Cardinality(DOMAIN g.heap)),
                  queryId, todo, i + 1)

\* Mutant of FindNear: the walk advances the head of the cell itself
\* (this.cells[x][y] = this.cells[x][y].next), which leaves the cells of the
\* query empty.
FindNearDrains(g, position, bounds) ==
    LET i1 == GetCellIndex(LowCorner(position, bounds))
        i2 == GetCellIndex(HighCorner(position, bounds))
        queryId == g.queryIds
        todo == LoopCells(i1[1], i1, i2)
        q == FindLoop(g, [clients |-> g.clients, out |-> << >>, endless |-> FALSE],
                      queryId, todo, 1)
    IN  [ grid |-> [g EXCEPT !.queryIds = g.queryIds + 1,
                             !.clients = q.clients,
                             !.cells = [ xy \in DOMAIN g.cells |->
                                           IF \E i \in DOMAIN todo : todo[i] = xy
                                           THEN Null ELSE g.cells[xy] ]],
          out |-> q.out,
          endless |-> q.endless ]

\* Mutant of FindNear: this.queryIds is read and not incremented.
FindNearSameId(g, position, bounds) ==
    LET i1 == GetCellIndex(LowCorner(position, bounds))
        i2 == GetCellIndex(HighCorner(position, bounds))
        queryId == g.queryIds
        q == FindLoop(g, [clients |-> g.clients, out |-> << >>, endless |-> FALSE],
                      queryId, LoopCells(i1[1], i1, i2), 1)
    IN  [ grid |-> [g EXCEPT !.clients = q.clients],
          out |-> q.out,
          endless |-> q.endless ]

\* findNear(position, bounds): the grid afterwards and the clients returned
FindNear(g, position, bounds) ==
    LET i1 == GetCellIndex(LowCorner(position, bounds))
        i2 == GetCellIndex(HighCorner(position, bounds))
        queryId == g.queryIds
        q == FindLoop(g, [clients |-> g.clients, out |-> << >>, endless |-> FALSE],
                      queryId, LoopCells(i1[1], i1, i2), 1)
    IN  [ grid |-> [g EXCEPT !.queryIds = g.queryIds + 1, !.clients = q.clients],
          out |-> q.out,
          endless |-> q.endless ]

----------------------------------------------------------------------------
\* The nodes a node table holds.
TableNodes(nodes) ==
    IF nodes = NullNodes THEN { }
    ELSE UNION { { nodes[i][j] : j \in DOMAIN nodes[i] } : i \in DOMAIN nodes }

Roots(g) ==
    ({ g.cells[xy] : xy \in AllCells } \ { Null })
    \cup UNION { TableNodes(g.clients[c].cells.nodes) :
                   c \in { d \in Clients : g.clients[d].exists } }

RECURSIVE Reach(_, _)
Reach(h, S) ==
    LET T == (S \cup { h[n].next : n \in S } \cup { h[n].prev : n \in S }) \ { Null }
    IN  IF T = S THEN S ELSE Reach(h, T)

\* The heap without its garbage.
Collect(g) == [g EXCEPT !.heap = [ n \in Reach(g.heap, Roots(g)) |-> g.heap[n] ]]

\* The generations of each client's objects renumbered from 0, in order.
Renamed(g) ==
    LET gens == [ c \in Clients |-> GensOf(g, c) ]
        Rank(c, e) == Cardinality({ f \in gens[c] : f < e })
        Unrank(c, r) == CHOOSE e \in gens[c] : Rank(c, e) = r
        Ren(n) == IF n = Null THEN Null ELSE <<n[1], Rank(n[1], n[2]), n[3], n[4]>>
        Back(m) == <<m[1], Unrank(m[1], m[2]), m[3], m[4]>>
        RenNode(r) == [ next |-> Ren(r.next), prev |-> Ren(r.prev), client |-> r.client ]
        RenCells(c, cs) ==
            IF cs.min = Null THEN cs
            ELSE [cs EXCEPT !.gen = Rank(c, @),
                            !.nodes = [ i \in DOMAIN cs.nodes |->
                                          [ j \in DOMAIN cs.nodes[i] |->
                                              Ren(cs.nodes[i][j]) ] ]]
    IN  IF \A c \in Clients : gens[c] \subseteq { 0 } THEN g
        ELSE [g EXCEPT
                !.heap = [ m \in { Ren(n) : n \in DOMAIN g.heap } |->
                             RenNode(g.heap[Back(m)]) ],
                !.cells = [ xy \in AllCells |-> Ren(g.cells[xy]) ],
                !.clients = [ c \in Clients |->
                                [g.clients[c] EXCEPT !.cells = RenCells(c, @)] ]]

\* The list of a cell from its head, as far as it goes in "fuel" steps.
RECURSIVE ListFrom(_, _, _)
ListFrom(h, head, fuel) ==
    IF head = Null \/ fuel = 0 THEN << >>
    ELSE << head >> \o ListFrom(h, h[head].next, fuel - 1)

Bucket(g, xy) == ListFrom(g.heap, g.cells[xy], Cardinality(DOMAIN g.heap) + 1)
NoQuery == << <<0, 0>>, <<0, 0>> >>

----------------------------------------------------------------------------
Present(c) == clients[c].exists /\ clients[c].cells.min /= Null
Absent(c) == clients[c].exists /\ clients[c].cells.min = Null

\* The caller lets go of a removed client before it goes on with the others:
\* while it holds one, it only calls on that client again or drops it.
Settled == \A d \in Clients : ~Absent(d)

\* Where a node stands in its list.
PlaceOf(n) ==
    IF heap[n].prev = Null
    THEN (IF heap[n].next = Null THEN "only" ELSE "head")
    ELSE (IF heap[n].next = Null THEN "tail" ELSE "interior")

Places(c) == { PlaceOf(n) : n \in { m \in DOMAIN heap : heap[m].client = c } }

\* The cell indices insert, updateClient and findNear compute first.
Corners(position, dimensions) ==
    << GetCellIndex(LowCorner(position, dimensions)),
       GetCellIndex(HighCorner(position, dimensions)) >>

\* new SpatialHashGrid(b, d), and a caller that holds no client yet.
Constructed(b, d) ==
    /\ gridBounds = b
    /\ gridDimensions = d
    /\ heap = << >>
    /\ cells = [ xy \in (0..(d[1] - 1)) \X (0..(d[2] - 1)) |-> Null ]
    /\ clients = [ c \in Clients |-> NoClient ]
    /\ queryIds = 0
    /\ last = [ op |-> "init", c |-> 0, out |-> "ok", round |-> FALSE, was |-> { } ]
    /\ query = NoQuery
    /\ ret = << >>

Init ==
    /\ Constructed(Bounds, Dimensions)
    /\ tracked = << >>
    /\ objects = << >>

\* The grid after an operation becomes the state.
Commit(g) ==
    \E n \in { Renamed(Collect(g)) } :
        /\ heap' = n.heap
        /\ cells' = n.cells
        /\ clients' = n.clients
        /\ queryIds' = n.queryIds

Called(op, c, out, round, was) ==
    last' = [ op |-> op, c |-> c, out |-> out, round |-> round, was |-> was ]

\* The new client object of newClient in the caller's slot c.
Created(c, position, dimensions) ==
    [Grid EXCEPT !.clients[c] = FreshClient(position, dimensions)]

\* newClient(position, dimensions): a new client object, inserted.
NewClientAct(c, position, dimensions) ==
    /\ Settled
    /\ ~clients[c].exists
    /\ \E g \in { Insert(Created(c, position, dimensions), c) } : Commit(g)
    /\ Called("newClient", c, "ok", FALSE, { })
    /\ ret' = << >>
    /\ query' = NoQuery
    /\ UNCHANGED <<gridBounds, gridDimensions, tracked, objects>>

\* client.position and client.dimensions as the caller has written them
\* since its last call.
Written(c, position, dimensions) ==
    [Grid EXCEPT !.clients[c].position = position,
                 !.clients[c].dimensions = dimensions]

\* updateClient(client) on a client of the grid, whose position and
\* dimensions are those the caller has written.
UpdateClientAct(c, position, dimensions) ==
    /\ Settled
    /\ Present(c)
    /\ \E g \in { UpdateClient(Written(c, position, dimensions), c) } :
           /\ Commit(g)
           /\ Called("updateClient", c,
                     IF g.thrown THEN "thrown"
                     ELSE IF Corners(position, dimensions)
                               = <<clients[c].cells.min, clients[c].cells.max>>
                          THEN "same" ELSE "moved",
                     FALSE, { })
    /\ ret' = << >>
    /\ query' = NoQuery
    /\ UNCHANGED <<gridBounds, gridDimensions, tracked, objects>>

\* remove(client) on a client of the grid.
RemoveAct(c) ==
    /\ Settled
    /\ Present(c)
    /\ \E g \in { Remove(Grid, c) } :
           /\ Commit(g)
           /\ Called("remove", c, IF g.thrown THEN "thrown" ELSE "ok",
                     last.op = "newClient" /\ last.c = c, Places(c))
    /\ ret' = << >>
    /\ query' = NoQuery
    /\ UNCHANGED <<gridBounds, gridDimensions, tracked, objects>>

\* remove(client) on a client of the grid whose position and dimensions the
\* caller has written since its last call.
RemoveWrittenAct(c, position, dimensions) ==
    /\ Settled
    /\ Present(c)
    /\ \E g \in { Remove(Written(c, position, dimensions), c) } :
           /\ Commit(g)
           /\ Called("remove", c, IF g.thrown THEN "thrown" ELSE "ok", FALSE,
                     Places(c) \cup
                       (IF Corners(position, dimensions)
                             = <<clients[c].cells.min, clients[c].cells.max>>
                        THEN { "same" } ELSE { "moved" }))
    /\ ret' = << >>
    /\ query' = NoQuery
    /\ UNCHANGED <<gridBounds, gridDimensions, tracked, objects>>

\* updateClient(client) on a client that has been removed.
UpdateRemovedAct(c) ==
    /\ Absent(c)
    /\ \E g \in { UpdateClient(Grid, c) } :
           /\ Commit(g)
           /\ Called("updateClient", c, IF g.thrown THEN "thrown" ELSE "absent",
                     FALSE, { })
    /\ ret' = << >>
    /\ query' = NoQuery
    /\ UNCHANGED <<gridBounds, gridDimensions, tracked, objects>>

\* remove(client) on a client that has been removed.
RemoveRemovedAct(c) ==
    /\ Absent(c)
    /\ \E g \in { Remove(Grid, c) } :
           /\ Commit(g)
           /\ Called("remove", c, IF g.thrown THEN "thrown" ELSE "absent",
                     FALSE, { })
    /\ ret' = << >>
    /\ query' = NoQuery
    /\ UNCHANGED <<gridBounds, gridDimensions, tracked, objects>>

\* The caller lets go of a client that is not in the grid.
DropAct(c) ==
    /\ Absent(c)
    /\ clients' = [clients EXCEPT ![c] = NoClient]
    /\ Called("drop", c, "ok", FALSE, { })
    /\ ret' = << >>
    /\ query' = NoQuery
    /\ UNCHANGED <<gridBounds, gridDimensions, tracked, objects>>
    /\ UNCHANGED <<heap, cells, queryIds>>

\* findNear(position, bounds)
FindNearAct(position, bounds) ==
    /\ Settled
    /\ queryIds < MaxQueries
    /\ \E r \in { FindNear(Grid, position, bounds) } :
           /\ Commit(r.grid)
           /\ Called("findNear", 0, IF r.endless THEN "endless" ELSE "ok",
                     FALSE, { })
           /\ ret' = r.out
           /\ query' = <<position, bounds>>
    /\ UNCHANGED <<gridBounds, gridDimensions, tracked, objects>>

Next ==
    \/ \E c \in Clients, p \in Positions, d \in Extents : NewClientAct(c, p, d)
    \/ \E c \in Clients, p \in Positions, d \in Extents : UpdateClientAct(c, p, d)
    \/ \E c \in Clients : RemoveAct(c)
    \/ \E c \in Clients : UpdateRemovedAct(c)
    \/ \E c \in Clients : RemoveRemovedAct(c)
    \/ \E c \in Clients : DropAct(c)
    \/ \E p \in Positions, d \in Extents : FindNearAct(p, d)

Spec == Init /\ [][Next]_vars

----------------------------------------------------------------------------
\* insert(client) called directly by the caller, on a client it holds
\* ("private" is checked by the TypeScript compiler only).
InsertAct(c) ==
    /\ clients[c].exists
    /\ \A d \in Clients \ { c } : ~Absent(d)
    /\ Cardinality(GensOf(Grid, c)) < MaxLinked
    /\ \E g \in { Insert(Grid, c) } :
           /\ Commit(g)
           /\ Called("insert", c, IF g.thrown THEN "thrown" ELSE "ok", FALSE,
                     IF Present(c) THEN { "present" } ELSE { "absent" })
    /\ ret' = << >>
    /\ query' = NoQuery
    /\ UNCHANGED <<gridBounds, gridDimensions, tracked, objects>>

NextInsert ==
    \/ \E c \in Clients, p \in Positions, d \in Extents : NewClientAct(c, p, d)
    \/ \E c \in Clients : InsertAct(c)
    \/ \E c \in Clients : RemoveAct(c)

SpecInsert == Init /\ [][NextInsert]_vars

----------------------------------------------------------------------------
\* The same grid with a caller whose clients and queries also lie across and
\* outside the bounds, and whose dimensions may be negative.
NumEdgeClients == 2
EdgeClients == 1..NumEdgeClients
EdgePositions == { <<-1, 1>>, <<2, 1>>, <<5, 3>> }
EdgeExtents == { <<0, 0>>, <<2, 2>>, <<-2, -2>> }

NextEdge ==
    \/ \E c \in EdgeClients, p \in EdgePositions, d \in EdgeExtents :
           NewClientAct(c, p, d)
    \/ \E c \in EdgeClients, p \in EdgePositions, d \in EdgeExtents :
           UpdateClientAct(c, p, d)
    \/ \E c \in EdgeClients : RemoveAct(c)
    \/ \E c \in EdgeClients, p \in EdgePositions, d \in EdgeExtents :
           RemoveWrittenAct(c, p, d)
    \/ \E c \in EdgeClients : DropAct(c)
    \/ \E p \in EdgePositions, d \in EdgeExtents : FindNearAct(p, d)

SpecEdge == Init /\ [][NextEdge]_vars

----------------------------------------------------------------------------
\* getCellIndex by itself, on grids of several bounds and dimensions: the
\* grid of Spec, the grid of the documentation ("if the world is 100 units
\* wide and we have 5 cells"), and a grid with a single cell along x whose
\* bounds begin below zero.
Worlds ==
    { [bounds |-> Bounds, dimensions |-> Dimensions],
      [bounds |-> << <<0, 0>>, <<100, 100>> >>, dimensions |-> <<5, 5>>],
      [bounds |-> << <<-2, -2>>, <<2, 6>> >>, dimensions |-> <<1, 4>>] }

InitIndex ==
    /\ \E w \in Worlds : Constructed(w.bounds, w.dimensions)
    /\ tracked = << >>
    /\ objects = << >>

\* Twice the coordinates getCellIndex is called with: from below the bounds
\* to above them, by half units.
IndexCoordinates2 ==
    (2 * gridBounds[1][1] - 4)..(2 * gridBounds[2][1] + 4)

\* getCellIndex(position); p2 is twice the position.
GetCellIndexAct(p2) ==
    /\ ret' = GetCellIndex(p2)
    /\ query' = <<p2, <<0, 0>> >>
    /\ Called("getCellIndex", 0, "ok", FALSE, { })
    /\ UNCHANGED <<gridBounds, gridDimensions, heap, cells, clients, queryIds,
                   tracked, objects>>

NextIndex ==
    \E px \in IndexCoordinates2 :
        \E py \in { px, 2 * gridBounds[1][2] + 1 } : GetCellIndexAct(<<px, py>>)

SpecIndex == InitIndex /\ [][NextIndex]_vars

----------------------------------------------------------------------------
\* The same grid with clients that lie in one cell only, beside or above
\* one another, and clients and queries over four cells.
OrderPositions == { <<1, 1>>, <<1, 2>>, <<2, 1>> }
OrderExtents == { <<0, 0>>, <<2, 2>> }

NextOrder ==
    \/ \E c \in EdgeClients, p \in OrderPositions, d \in OrderExtents :
           NewClientAct(c, p, d)
    \/ \E c \in EdgeClients, p \in OrderPositions, d \in OrderExtents :
           UpdateClientAct(c, p, d)
    \/ \E c \in EdgeClients : RemoveAct(c)
    \/ \E c \in EdgeClients : DropAct(c)
    \/ \E p \in OrderPositions, d \in OrderExtents : FindNearAct(p, d)

SpecOrder == Init /\ [][NextOrder]_vars

----------------------------------------------------------------------------
\* The grid of the scenarios: bounds [[0,0],[16,16]] and 16 x 16 cells.  Its
\* coordinates are carried in tenths of a unit (8.4 is 84, the bounds end at
\* 160); the quotient (p - min) / (max - min) is the same in tenths, and the
\* coordinates of the scenarios give products well inside a cell, where the
\* rounding of the doubles (8.4 is not a binary fraction) changes no floor.
ScenarioBounds == << <<0, 0>>, <<160, 160>> >>
ScenarioDimensions == <<16, 16>>
ScenarioPositions == { <<80, 80>>, <<84, 84>> }
ScenarioCentres == { <<80, 80>>, <<75, 75>>, <<0, 0>> }
ScenarioExtent == <<10, 10>>

InitScenario ==
    /\ Constructed(ScenarioBounds, ScenarioDimensions)
    /\ tracked = << >>
    /\ objects = << >>

NextScenario ==
    \/ \E c \in EdgeClients, p \in ScenarioPositions :
           NewClientAct(c, p, ScenarioExtent)
    \/ \E c \in EdgeClients : RemoveAct(c)
    \/ \E c \in EdgeClients : DropAct(c)
    \/ \E p \in ScenarioCentres : FindNearAct(p, ScenarioExtent)

SpecScenario == InitScenario /\ [][NextScenario]_vars

----------------------------------------------------------------------------
\* Clients and queries whose rectangles touch: with dimensions [2, 2] the
\* rectangles at [2, 1] and [4, 1] share the line x = 3, those at [4, 1] and
\* [5, 3] share a piece of the line y = 2, and the one at [5, 3] lies outside
\* the bounds.  The dimensions are not negative.

TouchPositions == { <<2, 1>>, <<4, 1>>, <<5, 3>> }
TouchExtents == { <<0, 0>>, <<2, 2>> }

NextTouch ==
    \/ \E c \in EdgeClients, p \in TouchPositions, d \in TouchExtents :
           NewClientAct(c, p, d)
    \/ \E c \in EdgeClients, p \in TouchPositions, d \in TouchExtents :
           UpdateClientAct(c, p, d)
    \/ \E c \in EdgeClients : RemoveAct(c)
    \/ \E c \in EdgeClients : DropAct(c)
    \/ \E p \in TouchPositions, d \in TouchExtents : FindNearAct(p, d)

SpecTouch == Init /\ [][NextTouch]_vars

----------------------------------------------------------------------------
\* ThreeSpatialHashGrid (src/src/ThreeSpatialHashGrid.ts): the grid with the
\* list of the clients added, each made from a 3D object of the caller.  An
\* object has a position (x, y, z) and a bounding box; +Y is up, and the
\* grid lies in x and z.
NumObjects == 2
Objects == 1..NumObjects
ThreePositions == { <<1, 0, 1>>, <<1, 2, 1>>, <<2, 1, 1>> }
\* geometry.boundingBox of the objects' meshes
UnitBox == [ min |-> <<0, 0, 0>>, max |-> <<1, 1, 1>> ]

InitThree ==
    /\ Constructed(Bounds, Dimensions)
    /\ tracked = << >>
    /\ objects \in [ Objects -> [ position : ThreePositions, box : { UnitBox } ] ]

\* add(object), the client made in the caller's slot c
Add(g, c, o) ==
    LET position == objects[o].position
        min == objects[o].box.min
        max == objects[o].box.max
        client == [FreshClient(<<position[1], position[3]>>,
                               <<max[1] - min[1], max[3] - min[3]>>)
                     EXCEPT !.metadata = o]
    IN  Insert([g EXCEPT !.clients[c] = client], c)

\* update(), the loop over this.clients from the i-th on; an exception of
\* updateClient ends it.
RECURSIVE UpdateLoop(_, _, _)
UpdateLoop(g, list, i) ==
    IF i > Len(list) \/ g.thrown THEN g
    ELSE LET c == list[i]
             position == objects[g.clients[c].metadata].position
             written == [g EXCEPT !.clients[c].position =
                                      <<position[1], position[2]>>]
         IN  UpdateLoop(UpdateClient(written, c), list, i + 1)

\* update()
Update(g) == UpdateLoop(g, tracked, 1)

\* getNearbyObjects(position, bounds)
GetNearbyObjects(g, position, bounds) ==
    FindNear(g, <<position[1], position[3]>>, bounds)

\* Mutant of DisposeLoop: the client is removed from the grid and stays in
\* the list.
RECURSIVE DisposeLoopKeepsList(_, _)
DisposeLoopKeepsList(d, i) ==
    IF i > Len(d.list) \/ d.grid.thrown THEN d
    ELSE DisposeLoopKeepsList([d EXCEPT !.grid = Remove(d.grid, d.list[i])],
                              i + 1)

\* dispose(), the loop over this.clients from the i-th on (i counts from 1):
\* the client is removed from the grid and spliced out of the list, and i
\* goes on by one.  d carries the grid and the list; an exception of remove
\* ends the loop.
RECURSIVE DisposeLoop(_, _)
DisposeLoop(d, i) ==
    IF i > Len(d.list) \/ d.grid.thrown THEN d
    ELSE LET removed == Remove(d.grid, d.list[i])
         IN  IF removed.thrown THEN [d EXCEPT !.grid = removed]
             ELSE DisposeLoop([ grid |-> removed,
                                list |-> SubSeq(d.list, 1, i - 1)
                                           \o SubSeq(d.list, i + 1, Len(d.list)) ],
                              i + 1)

\* dispose(): the grid and the list afterwards
Dispose(g) == DisposeLoop([ grid |-> g, list |-> tracked ], 1)

\* add(object): the new client is held in the first free slot.
AddAct(o) ==
    /\ \E c \in Clients :
           /\ ~clients[c].exists
           /\ \A d \in 1..(c - 1) : clients[d].exists
           /\ \E g \in { Add(Grid, c, o) } : Commit(g)
           /\ tracked' = Append(tracked, c)
           /\ Called("add", c, "ok", FALSE, { })
    /\ ret' = << >>
    /\ query' = NoQuery
    /\ UNCHANGED <<gridBounds, gridDimensions, objects>>

\* The caller moves an object.
MoveAct(o, position) ==
    /\ objects[o].position /= position
    /\ objects' = [objects EXCEPT ![o].position = position]
    /\ Called("move", 0, "ok", FALSE, { })
    /\ ret' = << >>
    /\ query' = NoQuery
    /\ UNCHANGED <<gridBounds, gridDimensions, heap, cells, clients, queryIds,
                   tracked>>

\* update()
UpdateAct ==
    /\ tracked /= << >>
    /\ \E g \in { Update(Grid) } :
           /\ Commit(g)
           /\ Called("update", 0, IF g.thrown THEN "thrown" ELSE "ok", FALSE, { })
    /\ ret' = << >>
    /\ query' = NoQuery
    /\ UNCHANGED <<gridBounds, gridDimensions, tracked, objects>>

\* dispose(); the clients spliced out of the list are held by nobody.
DisposeAct ==
    /\ tracked /= << >>
    /\ \E d \in { Dispose(Grid) } :
           /\ Commit([d.grid EXCEPT !.clients =
                         [ c \in Clients |->
                             IF (\E i \in DOMAIN tracked : tracked[i] = c)
                                /\ (\A j \in DOMAIN d.list : d.list[j] /= c)
                             THEN NoClient ELSE d.grid.clients[c] ]])
           /\ tracked' = d.list
           /\ Called("dispose", 0, IF d.grid.thrown THEN "thrown" ELSE "ok",
                     FALSE, { })
    /\ ret' = << >>
    /\ query' = NoQuery
    /\ UNCHANGED <<gridBounds, gridDimensions, objects>>

\* getNearbyObjects(position, bounds)
GetNearbyObjectsAct(position, bounds) ==
    /\ queryIds < MaxQueries
    /\ \E r \in { GetNearbyObjects(Grid, position, bounds) } :
           /\ Commit(r.grid)
           /\ Called("getNearbyObjects", 0, IF r.endless THEN "endless" ELSE "ok",
                     FALSE, { })
           /\ ret' = r.out
           /\ query' = << <<position[1], position[3]>>, bounds >>
    /\ UNCHANGED <<gridBounds, gridDimensions, tracked, objects>>

NextThree ==
    \/ \E o \in Objects : AddAct(o)
    \/ \E o \in Objects, p \in ThreePositions : MoveAct(o, p)
    \/ UpdateAct
    \/ DisposeAct
    \/ \E p \in ThreePositions, d \in Extents : GetNearbyObjectsAct(p, d)

SpecThree == InitThree /\ [][NextThree]_vars

----------------------------------------------------------------------------
\* Vocabulary of the properties.

Range(seq) == { seq[i] : i \in DOMAIN seq }

\* The cells of the inclusive rectangle between two cell indices.
RectCells(i1, i2) == (i1[1]..i2[1]) \X (i1[2]..i2[2])

SpanCells(c) == RectCells(clients[c].cells.min, clients[c].cells.max)

\* The nodes of the heap of g whose client is c.
NodesOf(g, c) == { n \in DOMAIN g.heap : g.heap[n].client = c }

\* The clients of a cell's list, in the order of the list.
Holders(g, xy) ==
    LET b == Bucket(g, xy) IN [ i \in DOMAIN b |-> g.heap[b[i]].client ]

NoDuplicates(seq) == \A i, j \in DOMAIN seq : seq[i] = seq[j] => i = j

\* The client's node of the cell xy, by the offset in its node table.
TableNode(c, xy) ==
    clients[c].cells.nodes[xy[1] - clients[c].cells.min[1] + 1]
                          [xy[2] - clients[c].cells.min[2] + 1]

FullyAbsent(c) ==
    /\ clients[c].cells.min = Null
    /\ clients[c].cells.max = Null
    /\ clients[c].cells.nodes = NullNodes
    /\ NodesOf(Grid, c) = { }

FullyPresent(c) ==
    LET cs == clients[c].cells
    IN  /\ cs.min /= Null
        /\ cs.max /= Null
        /\ cs.nodes /= NullNodes
        /\ DOMAIN cs.nodes = 1..(cs.max[1] - cs.min[1] + 1)
        /\ \A i \in DOMAIN cs.nodes :
               DOMAIN cs.nodes[i] = 1..(cs.max[2] - cs.min[2] + 1)
        /\ \A xy \in SpanCells(c) :
               /\ TableNode(c, xy) \in DOMAIN heap
               /\ heap[TableNode(c, xy)].client = c
               /\ TableNode(c, xy) \in Range(Bucket(Grid, xy))
        /\ NodesOf(Grid, c) = TableNodes(cs.nodes)
        /\ Cardinality(NodesOf(Grid, c)) = Cardinality(SpanCells(c))

----------------------------------------------------------------------------
\* C1: in every reachable state each client is either fully absent (span
\* none, no node of its own anywhere) or fully present (one node per cell of
\* its span rectangle, recorded in its table and linked into the list of that
\* very cell, and no other node).
C1_AbsentOrPresent ==
    \A c \in Clients :
        IF clients[c].exists
        THEN FullyAbsent(c) \/ FullyPresent(c)
        ELSE NodesOf(Grid, c) = { }

\* A client spanning several cells is in the grid beside a client that has
\* just been removed.
C1_Witness ==
    /\ last.op = "remove" /\ last.out = "ok" /\ Absent(last.c)
    /\ \E c \in Clients : Present(c) /\ Cardinality(SpanCells(c)) > 1

\* C2: the list of a cell holds nodes only of present clients whose span
\* covers the cell, at most one per client; after remove(c) no list holds a
\* node of c.
C2_BucketsHoldSpanningClients ==
    /\ \A xy \in AllCells :
           /\ \A c \in Range(Holders(Grid, xy)) : Present(c) /\ xy \in SpanCells(c)
           /\ NoDuplicates(Holders(Grid, xy))
    /\ (last.op = "remove" /\ last.out = "ok")
           => \A xy \in AllCells : last.c \notin Range(Holders(Grid, xy))

\* A client of several cells has been removed that was the head of one list
\* and an interior node of another, and lists are left with other clients.
C2_Witness ==
    /\ last.op = "remove" /\ last.out = "ok"
    /\ { "head", "interior" } \subseteq last.was
    /\ \E xy \in AllCells : Len(Bucket(Grid, xy)) >= 2

\* The cells of a query and the clients it has to return.
QueryCells(position, bounds) ==
    RectCells(Corners(position, bounds)[1], Corners(position, bounds)[2])

Intersecting(position, bounds) ==
    { c \in Clients :
        Present(c) /\ SpanCells(c) \cap QueryCells(position, bounds) /= { } }

\* C3: findNear returns a client if and only if it is present and its span
\* meets the cell rectangle of the query; this for the query that was made
\* and for every query that can be made in the state.
C3_FindNearReturnsIntersecting ==
    /\ last.op = "findNear" => Range(ret) = Intersecting(query[1], query[2])
    /\ \A p \in Positions, d \in Extents :
           Range(FindNear(Grid, p, d).out) = Intersecting(p, d)

\* A query has returned one present client and left out another, whose span
\* is disjoint from the query.
C3_Witness ==
    /\ last.op = "findNear"
    /\ ret /= << >>
    /\ \E c \in Clients : Present(c) /\ c \notin Range(ret)

\* C4: no client is twice in the result of a findNear call, in the query
\* that was made and in every query that can be made in the state (after the
\* queries and mutations that led to it).
C4_NoClientTwice ==
    /\ NoDuplicates(ret)
    /\ \A p \in Positions, d \in Extents : NoDuplicates(FindNear(Grid, p, d).out)

\* A query has covered every cell of a client of several cells, and returned
\* it, with a second client in the same lists.
C4_Witness ==
    /\ last.op = "findNear"
    /\ Len(ret) >= 2
    /\ \E c \in Range(ret) :
           /\ Cardinality(SpanCells(c)) > 1
           /\ SpanCells(c) \subseteq QueryCells(query[1], query[2])

\* C5: after insert (in newClient, and in an updateClient that moves the
\* client) the span is cell_index(p - e/2)..cell_index(p + e/2), the cells
\* whose list holds a node of the client are those of that rectangle, and
\* the node of each is in the table at its offset from min.
C5_InsertSpansRectangle ==
    (last.op = "newClient" \/ (last.op = "updateClient" /\ last.out = "moved"))
    => LET c == last.c
           k == Corners(clients[c].position, clients[c].dimensions)
       IN  /\ clients[c].cells.min = k[1]
           /\ clients[c].cells.max = k[2]
           /\ { xy \in AllCells : c \in Range(Holders(Grid, xy)) }
                = RectCells(k[1], k[2])
           /\ \A xy \in RectCells(k[1], k[2]) :
                  /\ TableNode(c, xy) \in Range(Bucket(Grid, xy))
                  /\ heap[TableNode(c, xy)].client = c

\* newClient has inserted a client over several cells, one of them occupied.
C5_Witness ==
    /\ last.op = "newClient"
    /\ Cardinality(SpanCells(last.c)) > 1
    /\ \E xy \in SpanCells(last.c) : Len(Bucket(Grid, xy)) >= 2

\* The list of the cell xy without the nodes of client c.
Others(g, c, xy) ==
    LET NotOfC(n) == g.heap[n].client /= c
    IN  SelectSeq(Bucket(g, xy), NotOfC)

\* C6: after updateClient on a present client the stored span is the span
\* of its position and dimensions and its nodes are those of that span; when
\* the span has changed, the grid is as after remove and insert: in each cell
\* of the new span a new node of the client stands in front of the others,
\* which are as they were, and no other list holds the client.
C6_UpdateRestoresSpan ==
    /\ (last.op = "updateClient" /\ last.out \in { "same", "moved" })
           => /\ <<clients[last.c].cells.min, clients[last.c].cells.max>>
                   = Corners(clients[last.c].position, clients[last.c].dimensions)
              /\ FullyPresent(last.c)
    /\ \A c \in Clients, p \in Positions, d \in Extents :
           (Present(c) /\ Corners(p, d) /= <<clients[c].cells.min, clients[c].cells.max>>)
           => LET g == UpdateClient(Written(c, p, d), c)
              IN  /\ ~g.thrown
                  /\ <<g.clients[c].cells.min, g.clients[c].cells.max>> = Corners(p, d)
                  /\ \A xy \in AllCells :
                         IF xy \in QueryCells(p, d)
                         THEN /\ Bucket(g, xy) /= << >>
                              /\ g.heap[Head(Bucket(g, xy))].client = c
                              /\ Head(Bucket(g, xy)) \notin DOMAIN heap
                              /\ Tail(Bucket(g, xy)) = Others(Grid, c, xy)
                         ELSE Bucket(g, xy) = Others(Grid, c, xy)

\* updateClient has moved a client between spans that share a cell with
\* another client.
C6_Witness ==
    /\ last.op = "updateClient" /\ last.out = "moved"
    /\ Cardinality(SpanCells(last.c)) > 1
    /\ \E xy \in SpanCells(last.c) : Len(Bucket(Grid, xy)) >= 2

\* C7: updateClient on a present client whose recomputed min and max equal
\* the stored ones changes nothing: the same nodes in the same lists with the
\* same links, the same span and node table objects, the same counter.
C7_CoherentUpdateChangesNothing ==
    \A c \in Clients, p \in Positions, d \in Extents :
        (Present(c) /\ Corners(p, d) = <<clients[c].cells.min, clients[c].cells.max>>)
        => UpdateClient(Written(c, p, d), c) = Written(c, p, d)

\* updateClient has found the span unchanged for a client that stands
\* behind another in a list (removing and inserting it would move it).
C7_Witness ==
    /\ last.op = "updateClient" /\ last.out = "same"
    /\ \E n \in NodesOf(Grid, last.c) : heap[n].prev /= Null

\* C8: inserting a new client and removing it at once gives back every
\* list as it was: the same heads, the same nodes in the same order with the
\* same links; and the client is absent.
C8_InsertRemoveRoundTrip ==
    \A c \in Clients, p \in Positions, d \in Extents :
        ~clients[c].exists
        => LET g == Remove(Insert(Created(c, p, d), c), c)
           IN  /\ ~g.thrown
               /\ g.cells = cells
               /\ \A xy \in AllCells : Bucket(g, xy) = Bucket(Grid, xy)
               /\ \A n \in DOMAIN heap : g.heap[n] = heap[n]
               /\ NodesOf(Collect(g), c) = { }
               /\ g.clients[c].cells.min = Null
               /\ g.clients[c].cells.max = Null
               /\ g.clients[c].cells.nodes = NullNodes

\* A client has been inserted in front of other clients and removed by the
\* next call.
C8_Witness ==
    /\ last.op = "remove" /\ last.out = "ok" /\ last.round
    /\ "head" \in last.was
    /\ \E xy \in AllCells : Bucket(Grid, xy) /= << >>

\* C9: remove and updateClient on a client that is not in the grid throw and
\* change nothing: lists, nodes, clients and counter are as they were.
C9_RemovedClientIsRejected ==
    /\ last.out /= "absent"
    /\ \A c \in Clients :
           Absent(c)
           => /\ Remove(Grid, c) = [Grid EXCEPT !.thrown = TRUE]
              /\ UpdateClient(Grid, c) = [Grid EXCEPT !.thrown = TRUE]

\* remove has been called a second time on a client, with other clients in
\* the grid.
C9_Witness ==
    /\ last.op = "remove" /\ last.out = "thrown"
    /\ Absent(last.c)
    /\ \E c \in Clients : Present(c)

\* C10: insert on a client that already has a span throws and leaves the
\* grid as it was; no client ever has two nodes in one list.
C10_InsertOnPresentIsRejected ==
    /\ (last.op = "insert" /\ "present" \in last.was) => last.out = "thrown"
    /\ \A xy \in AllCells : NoDuplicates(Holders(Grid, xy))

\* Twice the coordinates getCellIndex is tried on: from well below the
\* bounds to well above them, by half units.
Coordinates2 ==
    (2 * gridBounds[1][1] - 6)..(2 * gridBounds[2][1] + 6)

Outside(position) ==
    \E a \in 1..2 :
        position[a] < gridBounds[1][a] \/ position[a] > gridBounds[2][a]

\* C11: getCellIndex depends on the position and on the bounds and
\* dimensions the grid was constructed with, which no operation changes, and
\* for a position inside or outside the bounds it lies within
\* [0, cols-1] x [0, rows-1]; so the min and max of every client, and the
\* cell of every node, is a cell of the cells array.
C11_IndexWithinCells ==
    /\ gridBounds = Bounds /\ gridDimensions = Dimensions
    /\ \A px, py \in Coordinates2 : GetCellIndex(<<px, py>>) \in AllCells
    /\ \A c \in Clients :
           Present(c) => /\ clients[c].cells.min \in AllCells
                         /\ clients[c].cells.max \in AllCells
    /\ \A n \in DOMAIN heap : <<n[3], n[4]>> \in AllCells
    /\ DOMAIN cells = AllCells

\* A client whose position is outside the bounds has been inserted and has
\* a node in a cell.
C11_Witness ==
    /\ last.op = "newClient"
    /\ Outside(clients[last.c].position)
    /\ NodesOf(Grid, last.c) /= { }

\* The width of the bounds and the number of cells along the axis a.
Width(a) == gridBounds[2][a] - gridBounds[1][a]
Count(a) == gridDimensions[a]

\* C12: with N cells along an axis W units wide each cell spans W/N units:
\* a coordinate p inside the bounds (min <= p < max) has the cell index
\* floor((p - min) / (W / N)); p2 is twice p.
C12_CellsSpanWidthOverCount ==
    last.op = "getCellIndex"
    => \A a \in 1..2 :
           (2 * gridBounds[1][a] <= query[1][a] /\ query[1][a] < 2 * gridBounds[2][a])
           => ret[a] = ((query[1][a] - 2 * gridBounds[1][a]) * Count(a))
                           \div (2 * Width(a))

\* The normalised coordinate of p2 / 2 on the axis a, after sat, as the
\* numerator of a fraction over 2 * Width(a).
Normalized2(p2, a) ==
    IF p2 < 2 * gridBounds[1][a] THEN 0
    ELSE IF p2 > 2 * gridBounds[2][a] THEN 2 * Width(a)
    ELSE p2 - 2 * gridBounds[1][a]

\* normalised >= (N - 1) / N
InLastNth(p2, a) ==
    Normalized2(p2, a) * Count(a) >= (Count(a) - 1) * 2 * Width(a)

WhollyOutside(c, a, side) ==
    /\ clients[c].dimensions[a] >= 0
    /\ IF side = 1
       THEN HighCorner(clients[c].position, clients[c].dimensions)[a]
                < 2 * gridBounds[1][a]
       ELSE LowCorner(clients[c].position, clients[c].dimensions)[a]
                >= 2 * gridBounds[2][a]

\* C14: a position outside the bounds is no error for insert, updateClient
\* and findNear; a coordinate below bounds.min has the index 0 and one at or
\* above bounds.max the index N - 1; a client wholly outside the bounds on
\* an axis has its nodes in the boundary cells of that side.
C14_OutsideSaturates ==
    /\ last.op \in { "newClient", "updateClient", "findNear" }
           => last.out \notin { "thrown", "endless" }
    /\ \A p2 \in Coordinates2, a \in 1..2 :
           /\ p2 < 2 * gridBounds[1][a] => CellIndexAxis(p2, a) = 0
           /\ p2 >= 2 * gridBounds[2][a] => CellIndexAxis(p2, a) = Count(a) - 1
    /\ \A c \in Clients, a \in 1..2 :
           Present(c)
           => /\ WhollyOutside(c, a, 1)
                    => /\ clients[c].cells.min[a] = 0
                       /\ clients[c].cells.max[a] = 0
                       /\ NodesOf(Grid, c) /= { }
              /\ WhollyOutside(c, a, 2)
                    => /\ clients[c].cells.min[a] = Count(a) - 1
                       /\ clients[c].cells.max[a] = Count(a) - 1
                       /\ NodesOf(Grid, c) /= { }

\* A query centred outside the bounds has returned a client that updateClient
\* or newClient has put wholly outside the bounds.
C14_Witness ==
    /\ last.op = "findNear"
    /\ Outside(query[1])
    /\ \E c \in Range(ret), a \in 1..2 : WhollyOutside(c, a, 2)
    /\ \E c \in Clients, a \in 1..2 : Present(c) /\ WhollyOutside(c, a, 1)

\* C15: a client whose dimensions are zero or negative on an axis has a
\* footprint of one cell on that axis (min = max), owns a node, and is
\* returned by a query that covers that cell; the span rectangle of a
\* present client is at least 1 x 1.
C15_DegenerateIsOneCell ==
    \A c \in Clients :
        Present(c)
        => /\ \A a \in 1..2 :
                  /\ clients[c].cells.min[a] <= clients[c].cells.max[a]
                  /\ clients[c].dimensions[a] <= 0
                         => clients[c].cells.min[a] = clients[c].cells.max[a]
           /\ (\E a \in 1..2 : clients[c].dimensions[a] <= 0)
                  => /\ NodesOf(Grid, c) /= { }
                     /\ \A p \in EdgePositions, d \in EdgeExtents :
                            clients[c].cells.min \in QueryCells(p, d)
                            => c \in Range(FindNear(Grid, p, d).out)

\* C16: findNear changes nothing but this.queryIds and the _queryId of the
\* clients it returns: the heap (nodes and links), the head of every cell,
\* and every client's position, dimensions, min, max and node table are as
\* before; this for every query that can be made in every state.
C16_FindNearKeepsTheGrid ==
    \A p \in Positions, d \in Extents :
        LET r == FindNear(Grid, p, d)
        IN  /\ r.grid.heap = heap
            /\ r.grid.cells = cells
            /\ r.grid.queryIds = queryIds + 1
            /\ \A c \in Clients :
                   r.grid.clients[c] =
                       IF c \in Range(r.out)
                       THEN [clients[c] EXCEPT !.queryId = queryIds]
                       ELSE clients[c]

\* A query has returned some clients of several and left others; the lists
\* hold several nodes.
C16_Witness ==
    /\ last.op = "findNear"
    /\ \E c \in Range(ret) : clients[c].queryId = queryIds - 1
    /\ \E c \in Clients : Present(c) /\ clients[c].queryId = -1
    /\ \E xy \in AllCells : Len(Bucket(Grid, xy)) >= 2

\* C17: this.queryIds grows by one in every findNear and is left alone by
\* every other call; in every state the id the next query will use differs
\* from the _queryId of every client, a new client (-1) at the first query
\* included; and a client that a query has returned is returned again by
\* every next query whose rectangle meets its span.
C17_QueryIdsAreFresh ==
    /\ [][queryIds' = IF last'.op = "findNear" THEN queryIds + 1 ELSE queryIds]_vars
    /\ [](\A c \in Clients : clients[c].exists => clients[c].queryId < queryIds)
    /\ [](last.op = "findNear"
             => \A c \in Range(ret), p \in Positions, d \in Extents :
                    c \in Intersecting(p, d)
                    => c \in Range(FindNear(Grid, p, d).out))

\* The first query has returned every client of the grid, new clients that
\* no query had met.
C17_Witness ==
    /\ last.op = "findNear" /\ queryIds = 1
    /\ Cardinality({ c \in Clients : Present(c) }) >= 2
    /\ \A c \in Clients : Present(c) => c \in Range(ret)

\* The cells of the rectangle i1..i2 in the order of the cells array
\* cells[x][y], one x after the other and y ascending within each x.
RowMajor(i1, i2) ==
    LET w == i2[1] - i1[1] + 1
        h == i2[2] - i1[2] + 1
    IN  IF w <= 0 \/ h <= 0 THEN << >>
        ELSE [ k \in 1..(w * h) |->
                 << i1[1] + ((k - 1) \div h), i1[2] + ((k - 1) % h) >> ]

\* The clients of the lists of the cells "todo" from the i-th on, one list
\* after the other.
RECURSIVE Encounters(_, _)
Encounters(todo, i) ==
    IF i > Len(todo) THEN << >>
    ELSE Holders(Grid, todo[i]) \o Encounters(todo, i + 1)

\* A sequence without the later occurrences of its elements.
FirstOnly(seq) ==
    LET IsFirst(i) == \A j \in 1..(i - 1) : seq[j] /= seq[i]
        kept == { i \in DOMAIN seq : IsFirst(i) }
        Nth(k) == CHOOSE i \in kept : Cardinality({ j \in kept : j < i }) = k - 1
    IN  [ k \in 1..Cardinality(kept) |-> seq[Nth(k)] ]

TraversalOrder(position, bounds) ==
    FirstOnly(Encounters(RowMajor(Corners(position, bounds)[1],
                                  Corners(position, bounds)[2]), 1))

\* The clients of a list without the client c.
HoldersBut(g, c, xy) ==
    LET Other(d) == d /= c IN SelectSeq(Holders(g, xy), Other)

\* C18: findNear returns the clients in the order it meets them: the cells
\* of the query one x after the other and y ascending within each x, the list
\* of each cell from its head, every client where it is met first; and the
\* list of a cell holds the client inserted last first: insert (in newClient
\* and in an updateClient that changes the span) puts the client in front of
\* the other clients of each cell of its span and leaves their order.
C18_ResultInTraversalOrder ==
    /\ last.op = "findNear" => ret = TraversalOrder(query[1], query[2])
    /\ \A p \in OrderPositions, d \in OrderExtents :
           FindNear(Grid, p, d).out = TraversalOrder(p, d)
    /\ \A c \in EdgeClients, p \in OrderPositions, d \in OrderExtents :
           /\ ~clients[c].exists
                  => LET g == Insert(Created(c, p, d), c)
                     IN  \A xy \in AllCells :
                             Holders(g, xy) =
                                 IF xy \in QueryCells(p, d)
                                 THEN << c >> \o Holders(Grid, xy)
                                 ELSE Holders(Grid, xy)
           /\ (Present(c)
                  /\ Corners(p, d) /= <<clients[c].cells.min, clients[c].cells.max>>)
                  => LET g == UpdateClient(Written(c, p, d), c)
                     IN  \A xy \in AllCells :
                             Holders(g, xy) =
                                 IF xy \in QueryCells(p, d)
                                 THEN << c >> \o HoldersBut(Grid, c, xy)
                                 ELSE HoldersBut(Grid, c, xy)

\* A query over four cells has returned two clients that lie in one cell
\* each, the one of cell (0,1) before the one of cell (1,0).
C18_Witness ==
    /\ last.op = "findNear"
    /\ Len(ret) = 2
    /\ SpanCells(ret[1]) = { <<0, 1>> }
    /\ SpanCells(ret[2]) = { <<1, 0>> }

\* Client c is in the grid, inserted at the position p with extent (1,1).
InsertedAt(c, p) ==
    /\ Present(c)
    /\ clients[c].position = p
    /\ clients[c].dimensions = ScenarioExtent

\* How many times the client c is in the sequence.
Occurrences(seq, c) == Cardinality({ i \in DOMAIN seq : seq[i] = c })

\* The sequence holds a and b once each, and nothing else when a and b are
\* the only clients of the grid.
BothOnce(seq, a, b) ==
    /\ Occurrences(seq, a) = 1
    /\ Occurrences(seq, b) = 1
    /\ { c \in Clients : Present(c) } = { a, b } => Len(seq) = 2

\* C19: on the grid of bounds [[0,0],[16,16]] and 16 x 16 cells, with A
\* inserted at (8,8) and B at (8.4,8.4), both of extent (1,1): the spans of A
\* and B share exactly one cell; a query of extent (1,1) centred on that cell
\* (where the code puts its centre, (8,8), and where cells one unit wide
\* would put it, (7.5,7.5)) returns A and B, each once; a query of extent
\* (1,1) at (0,0) returns neither.
C19_ScenarioB ==
    \A a, b \in Clients :
        (InsertedAt(a, <<80, 80>>) /\ InsertedAt(b, <<84, 84>>))
        => /\ Cardinality(SpanCells(a) \cap SpanCells(b)) = 1
           /\ \A p \in { <<80, 80>>, <<75, 75>> } :
                  /\ SpanCells(a) \cap SpanCells(b) \subseteq QueryCells(p, ScenarioExtent)
                  /\ BothOnce(FindNear(Grid, p, ScenarioExtent).out, a, b)
                  /\ (last.op = "findNear" /\ query = <<p, ScenarioExtent>>)
                         => BothOnce(ret, a, b)
           /\ { a, b } \cap Range(FindNear(Grid, <<0, 0>>, ScenarioExtent).out) = { }
           /\ (last.op = "findNear" /\ query = << <<0, 0>>, ScenarioExtent >>)
                  => { a, b } \cap Range(ret) = { }

\* The query centred on the shared cell has been made with A and B in the
\* grid, B inserted last.
C19_Witness ==
    /\ last.op = "findNear"
    /\ query = << <<80, 80>>, ScenarioExtent >>
    /\ Len(ret) = 2
    /\ InsertedAt(ret[2], <<80, 80>>)
    /\ InsertedAt(ret[1], <<84, 84>>)

\* The object of a client of the list.
ObjectOf(c) == objects[clients[c].metadata]

\* (object.position.x, object.position.z)
Ground(o) == << objects[o].position[1], objects[o].position[3] >>

\* No object has moved from where the grid has its client.
NothingMoved ==
    \A i \in DOMAIN tracked :
        <<clients[tracked[i]].cells.min, clients[tracked[i]].cells.max>>
            = Corners(Ground(clients[tracked[i]].metadata),
                      clients[tracked[i]].dimensions)

\* C20: the position of a client of ThreeSpatialHashGrid is
\* (object.position.x, object.position.z) when add has made it and after
\* every update, the axes getNearbyObjects queries with; and update, called
\* when no object has moved, leaves the span of every client and the list of
\* every cell as they are.
C20_GridLiesInXZ ==
    /\ last.op = "add" => clients[last.c].position = Ground(clients[last.c].metadata)
    /\ last.op = "update"
           => \A i \in DOMAIN tracked :
                  clients[tracked[i]].position = Ground(clients[tracked[i]].metadata)
    /\ (tracked /= << >> /\ NothingMoved)
           => LET g == Update(Grid)
              IN  /\ ~g.thrown
                  /\ g.heap = heap
                  /\ g.cells = cells
                  /\ \A c \in Clients : g.clients[c].cells = clients[c].cells

\* The nodes of the lists of all cells.
Listed == UNION { Range(Bucket(Grid, xy)) : xy \in AllCells }

\* C21: in every reachable state the list of each cell is a well-formed,
\* finite doubly-linked list without a cycle: the head has no prev, the prev
\* of the next of a node is that node, the walk from the head ends at a node
\* without next and meets no node twice; every node met is in the node table
\* of a client that is in the grid; and no other node is linked from a head
\* or from the next or prev of a node of a list.
C21_ListsAreWellFormed ==
    /\ \A xy \in AllCells :
           LET b == Bucket(Grid, xy)
           IN  /\ Len(b) <= Cardinality(DOMAIN heap)
               /\ NoDuplicates(b)
               /\ \A i \in DOMAIN b : b[i] \in DOMAIN heap
               /\ b /= << >>
                      => /\ heap[b[1]].prev = Null
                         /\ heap[b[Len(b)]].next = Null
               /\ \A i \in 1..(Len(b) - 1) :
                      /\ heap[b[i]].next = b[i + 1]
                      /\ heap[b[i + 1]].prev = b[i]
               /\ \A i \in DOMAIN b :
                      /\ Present(heap[b[i]].client)
                      /\ b[i] \in TableNodes(clients[heap[b[i]].client].cells.nodes)
    /\ \A n \in Listed :
           { heap[n].next, heap[n].prev } \subseteq Listed \cup { Null }
    /\ DOMAIN heap = Listed

\* remove has spliced an interior node and a tail node out of lists that
\* still hold several nodes.
C21_Witness ==
    /\ last.op = "remove" /\ last.out = "ok"
    /\ { "interior", "tail" } \subseteq last.was
    /\ \E xy \in AllCells : Len(Bucket(Grid, xy)) >= 2

\* C22: when dispose has returned, whatever the number of objects added, the
\* list of clients is empty and no list of a cell holds a node: every client
\* of the list has been removed from the grid.
C22_DisposeEmptiesTheGrid ==
    last.op = "dispose"
    => /\ last.out = "ok"
       /\ tracked = << >>
       /\ \A xy \in AllCells : cells[xy] = Null
       /\ \A c \in Clients : ~Present(c)

\* C23: remove takes the client out of the cells of the span stored at its
\* last insert, by the nodes stored with it, whatever the caller has written
\* into position and dimensions since: after remove, and after an
\* updateClient that changes the span, every list of the old span is the list
\* it was without the client's node, and the other lists are untouched.
C23_RemoveUsesTheStoredSpan ==
    /\ (last.op = "remove" /\ last.out = "ok") => NodesOf(Grid, last.c) = { }
    /\ \A c \in Clients, p \in EdgePositions, d \in EdgeExtents :
           Present(c)
           => /\ LET g == Remove(Written(c, p, d), c)
                 IN  /\ ~g.thrown
                     /\ g.clients[c].cells.min = Null
                     /\ \A xy \in AllCells : Bucket(g, xy) = Others(Grid, c, xy)
              /\ LET u == UpdateClient(Written(c, p, d), c)
                 IN  Corners(p, d) /= <<clients[c].cells.min, clients[c].cells.max>>
                     => \A xy \in AllCells :
                            /\ xy \notin QueryCells(p, d)
                                   => Bucket(u, xy) = Others(Grid, c, xy)
                            /\ xy \in QueryCells(p, d)
                                   => Tail(Bucket(u, xy)) = Others(Grid, c, xy)

\* remove has been called on a client that the caller had moved to another
\* span without updateClient, out of lists that other clients are left in.
C23_Witness ==
    /\ last.op = "remove" /\ last.out = "ok"
    /\ "moved" \in last.was
    /\ last.was \cap { "head", "interior", "tail" } /= { }
    /\ \E xy \in AllCells : cells[xy] /= Null

\* The grid g differs from the state in client c only: every other client
\* object is as it was (span, node table, position, stamp), and every list
\* holds the nodes of the other clients it held, in the same order.
OnlyTouches(g, c) ==
    /\ \A d \in Clients \ { c } : g.clients[d] = clients[d]
    /\ \A xy \in AllCells : Others(g, c, xy) = Others(Grid, c, xy)
    /\ \A n \in DOMAIN heap : heap[n].client /= c => n \in DOMAIN g.heap
    /\ g.queryIds = queryIds

\* C24: insert, remove and updateClient of a client c leave every other
\* client as it is: its span, its node table and the cells that hold it; and
\* in every list the nodes of the other clients keep their order.
C24_OtherClientsAreLeftAlone ==
    \A c \in Clients, p \in Positions, d \in Extents :
        /\ ~clients[c].exists => OnlyTouches(Insert(Created(c, p, d), c), c)
        /\ Present(c) => /\ OnlyTouches(Remove(Grid, c), c)
                         /\ OnlyTouches(UpdateClient(Written(c, p, d), c), c)

\* updateClient has moved a client into or out of the lists of two other
\* clients that share a cell.
C24_Witness ==
    /\ last.op = "updateClient" /\ last.out = "moved"
    /\ \E xy \in AllCells : Len(Others(Grid, last.c, xy)) >= 2

\* C25: the list this.clients of ThreeSpatialHashGrid holds exactly the
\* clients present in the grid, each once: every listed client has a span,
\* every node of a list belongs to a listed client, and update() and
\* dispose() never end in the exception of a client that is not inserted.
C25_ListIsThePresentClients ==
    /\ NoDuplicates(tracked)
    /\ \A i \in DOMAIN tracked : Present(tracked[i]) /\ FullyPresent(tracked[i])
    /\ \A c \in Clients : Present(c) => c \in Range(tracked)
    /\ \A xy \in AllCells : Range(Holders(Grid, xy)) \subseteq Range(tracked)
    /\ \A n \in DOMAIN heap : heap[n].client \in Range(tracked)
    /\ last.op \in { "update", "dispose" } => last.out = "ok"
    /\ ~Update(Grid).thrown
    /\ ~Dispose(Grid).grid.thrown

\* dispose() has left a client in the list, which is still in a list of the
\* grid.
C25_Witness ==
    /\ last.op = "dispose"
    /\ last.out = "ok"
    /\ tracked /= << >>
    /\ \E xy \in AllCells : tracked[1] \in Range(Holders(Grid, xy))

\* The world rectangle of the client c, position -/+ dimensions / 2, and the
\* rectangle of a query share a point, touching included; the corners are
\* doubled.
Overlaps(c, position, bounds) ==
    \A a \in 1..2 :
        /\ LowCorner(clients[c].position, clients[c].dimensions)[a]
               <= HighCorner(position, bounds)[a]
        /\ LowCorner(position, bounds)[a]
               <= HighCorner(clients[c].position, clients[c].dimensions)[a]
        /\ LowCorner(position, bounds)[a] <= HighCorner(position, bounds)[a]

\* The two rectangles share points of their borders only, on some axis.
Touches(c, position, bounds) ==
    /\ Overlaps(c, position, bounds)
    /\ \E a \in 1..2 :
           \/ LowCorner(clients[c].position, clients[c].dimensions)[a]
                  = HighCorner(position, bounds)[a]
           \/ LowCorner(position, bounds)[a]
                  = HighCorner(clients[c].position, clients[c].dimensions)[a]

\* The clients a query has to return by their world rectangles.
Overlapping(position, bounds) ==
    { c \in Clients :
        /\ Present(c)
        /\ \A a \in 1..2 : clients[c].dimensions[a] >= 0
        /\ Overlaps(c, position, bounds) }

\* C26: findNear misses no client geometrically: a present client with
\* dimensions that are not negative whose world rectangle overlaps or touches
\* the rectangle of the query, inside or outside the bounds, is returned;
\* this for the query that was made and for every query that can be made in
\* the state.
C26_NoGeometricFalseNegatives ==
    /\ last.op = "findNear"
           => Overlapping(query[1], query[2]) \subseteq Range(ret)
    /\ \A p \in TouchPositions \cup EdgePositions, d \in EdgeExtents :
           Overlapping(p, d) \subseteq Range(FindNear(Grid, p, d).out)

\* A query centred outside the bounds has returned a client whose rectangle
\* it only touches, and both rectangles have a width.
C26_Witness ==
    /\ last.op = "findNear"
    /\ Outside(query[1])
    /\ query[2] = <<2, 2>>
    /\ \E c \in Range(ret) :
           /\ clients[c].dimensions = <<2, 2>>
           /\ Touches(c, query[1], query[2])

\* Twice the coordinates of the axis a, from below the bounds to above them
\* by half units, and twice the extents (none negative) of a rectangle.
AxisCoordinates2(a) == (2 * gridBounds[1][a] - 6)..(2 * gridBounds[2][a] + 6)
Extents2 == 0..6

\* C27: getCellIndex is monotone on each axis: a coordinate that is not
\* larger has an index that is not larger; so a rectangle whose extent is
\* not negative, centred at the position getCellIndex was called with, has
\* min <= max on both axes and covers at least one cell.
C27_CellIndexIsMonotone ==
    last.op = "getCellIndex"
    => /\ \A a \in 1..2 : \A q2 \in AxisCoordinates2(a) :
              /\ q2 <= query[1][a] => CellIndexAxis(q2, a) <= ret[a]
              /\ query[1][a] <= q2 => ret[a] <= CellIndexAxis(q2, a)
       /\ \A w \in Extents2, h \in Extents2 :
              LET i1 == GetCellIndex(<<query[1][1] - w, query[1][2] - h>>)
                  i2 == GetCellIndex(<<query[1][1] + w, query[1][2] + h>>)
              IN  /\ i1[1] <= i2[1]
                  /\ i1[2] <= i2[2]
                  /\ RectCells(i1, i2) /= { }
                  /\ ret \in RectCells(i1, i2)

\* getCellIndex has been called with a position inside the bounds that has
\* smaller indices below it and larger ones above it on the first axis.
C27_Witness ==
    /\ last.op = "getCellIndex"
    /\ \E q2 \in AxisCoordinates2(1) : CellIndexAxis(q2, 1) < ret[1]
    /\ \E q2 \in AxisCoordinates2(1) : ret[1] < CellIndexAxis(q2, 1)

\* The number of passes of the cell loops between two cell indices.
Passes(i1, i2) == Len(LoopCells(i1[1], i1, i2))

PresentClients == { c \in Clients : Present(c) }

\* C28: every operation runs to its end.  The walk of findNear reaches a
\* null next in every list, after at most one node for each present client;
\* the cell loops of insert, updateClient and findNear make one pass for each
\* cell of the rectangle they computed, and those of remove one for each cell
\* of the stored span, never more than there are cells.
C28_OperationsRunToCompletion ==
    /\ last.out /= "endless"
    /\ \A xy \in AllCells :
           LET b == Bucket(Grid, xy)
           IN  /\ Len(b) <= Cardinality(PresentClients)
               /\ NoDuplicates(Holders(Grid, xy))
               /\ b /= << >> => heap[b[Len(b)]].next = Null
    /\ \A p \in Positions, d \in Extents :
           /\ ~FindNear(Grid, p, d).endless
           /\ Passes(Corners(p, d)[1], Corners(p, d)[2])
                  = Cardinality(QueryCells(p, d))
           /\ Passes(Corners(p, d)[1], Corners(p, d)[2]) <= Cardinality(AllCells)
    /\ \A c \in PresentClients :
           /\ Passes(clients[c].cells.min, clients[c].cells.max)
                  = Cardinality(SpanCells(c))
           /\ Cardinality(SpanCells(c)) <= Cardinality(AllCells)
           /\ ~Remove(Grid, c).thrown
           /\ \A p \in Positions, d \in Extents :
                  ~UpdateClient(Written(c, p, d), c).thrown

\* findNear has walked a list of three nodes to its end and returned the
\* three clients.
C28_Witness ==
    /\ last.op = "findNear"
    /\ last.out = "ok"
    /\ Len(ret) = NumClients
    /\ \E xy \in QueryCells(query[1], query[2]) : Len(Bucket(Grid, xy)) = NumClients

====
